---- MODULE Spec2Model ----
(***************************************************************************)
(* Model of the lnx configuration parser (lnx-parsers/rust/src/lib.rs).    *)
(* The state is one IPConfig aggregate driven by IPConfig::parse, one line *)
(* per step.  Lines are strings; tokenising, comment stripping and field   *)
(* parsing are computed character by character.                            *)
(***************************************************************************)
EXTENDS Integers, Sequences, FiniteSets, TLC

(***************************************************************************)
(* Bounds and numeric limits                                               *)
(***************************************************************************)
\* number of lines of the input text that parse walks through
MaxLines == 3

\* u16::MAX, the largest port str::parse::<u16> accepts
U16Max == 65535
\* the largest octet of an IPv4 address
OctetMax == 255
\* the largest prefix length of an Ipv4Net
PrefixMax == 32

(***************************************************************************)
(* Characters and numbers                                                  *)
(***************************************************************************)
Digits == {"0", "1", "2", "3", "4", "5", "6", "7", "8", "9"}

\* char::is_ascii_whitespace: space, tab, line feed, form feed, carriage return
AsciiWhitespace == {" ", "\t", "\n", "\f", "\r"}

CharAt(s, i) == SubSeq(s, i, i)

DigitVal(c) ==
    CASE c = "0" -> 0 [] c = "1" -> 1 [] c = "2" -> 2 [] c = "3" -> 3
      [] c = "4" -> 4 [] c = "5" -> 5 [] c = "6" -> 6 [] c = "7" -> 7
      [] c = "8" -> 8 [] c = "9" -> 9

AllDigits(s) == \A i \in 1..Len(s) : CharAt(s, i) \in Digits

\* Accumulate decimal digits left to right; -1 as soon as the value passes
\* max (the checked multiplication/addition of the integer parsers).
RECURSIVE NumFrom(_, _, _, _)
NumFrom(s, i, acc, max) ==
    IF acc > max THEN -1
    ELSE IF i > Len(s) THEN acc
    ELSE NumFrom(s, i + 1, acc * 10 + DigitVal(CharAt(s, i)), max)

\* str::split(sep): every piece between separators, empty pieces included
RECURSIVE SplitFrom(_, _, _, _, _)
SplitFrom(s, sep, i, cur, acc) ==
    IF i > Len(s) THEN Append(acc, cur)
    ELSE IF CharAt(s, i) = sep THEN SplitFrom(s, sep, i + 1, "", Append(acc, cur))
    ELSE SplitFrom(s, sep, i + 1, cur \o CharAt(s, i), acc)

split(s, sep) == SplitFrom(s, sep, 1, "", <<>>)

\* str::split_ascii_whitespace: maximal runs of non-whitespace characters
RECURSIVE SplitWsFrom(_, _, _, _)
SplitWsFrom(s, i, cur, acc) ==
    IF i > Len(s) THEN (IF cur = "" THEN acc ELSE Append(acc, cur))
    ELSE IF CharAt(s, i) \in AsciiWhitespace
         THEN SplitWsFrom(s, i + 1, "", IF cur = "" THEN acc ELSE Append(acc, cur))
         ELSE SplitWsFrom(s, i + 1, cur \o CharAt(s, i), acc)

split_ascii_whitespace(s) == SplitWsFrom(s, 1, "", <<>>)

(***************************************************************************)
(* Field parsers.  A failed parse is the value Bad.                        *)
(***************************************************************************)
Bad == [ok |-> FALSE]
Good(v) == [ok |-> TRUE, v |-> v]

\* str::parse::<u16>: optional '+', at least one digit, digits only,
\* value at most u16::MAX (leading zeros are accepted).
parse_u16(s) ==
    LET body == IF Len(s) > 0 /\ CharAt(s, 1) = "+" THEN SubSeq(s, 2, Len(s)) ELSE s
        n == NumFrom(body, 1, 0, U16Max)
    IN  IF Len(body) = 0 \/ ~AllDigits(body) \/ n < 0 THEN Bad ELSE Good(n)

\* One octet of str::parse::<Ipv4Addr>: 1 to 3 digits, no leading zero
\* unless the octet is "0", value at most 255.
StdOctet(s) ==
    IF Len(s) = 0 \/ Len(s) > 3 \/ ~AllDigits(s) THEN -1
    ELSE IF Len(s) > 1 /\ CharAt(s, 1) = "0" THEN -1
    ELSE NumFrom(s, 1, 0, OctetMax)

\* str::parse::<Ipv4Addr>: exactly four octets separated by '.'
parse_Ipv4Addr(s) ==
    LET parts == split(s, ".")
    IN  IF Len(parts) # 4 THEN Bad
        ELSE LET o == [i \in 1..4 |-> StdOctet(parts[i])]
             IN  IF \E i \in 1..4 : o[i] < 0 THEN Bad ELSE Good(o)

\* One octet of the ipnet parser: 1 to 3 digits, value at most 255
NetOctet(s) ==
    IF Len(s) = 0 \/ Len(s) > 3 \/ ~AllDigits(s) THEN -1
    ELSE NumFrom(s, 1, 0, OctetMax)

\* str::parse::<Ipv4Net>: <ipv4>/<prefix length>, prefix length 1 or 2
\* digits and at most 32; the address is stored as written (host bits kept).
parse_Ipv4Net(s) ==
    LET halves == split(s, "/")
    IN  IF Len(halves) # 2 THEN Bad
        ELSE LET parts == split(halves[1], ".")
                 p == halves[2]
                 plen == IF Len(p) = 0 \/ Len(p) > 2 \/ ~AllDigits(p) THEN -1
                         ELSE NumFrom(p, 1, 0, PrefixMax)
             IN  IF Len(parts) # 4 \/ plen < 0 THEN Bad
                 ELSE LET o == [i \in 1..4 |-> NetOctet(parts[i])]
                      IN  IF \E i \in 1..4 : o[i] < 0 THEN Bad
                          ELSE Good([addr |-> o, prefix_len |-> plen])

\* Display of an Ipv4Addr: the four octets in decimal, joined by '.'
Ipv4Display(a) ==
    ToString(a[1]) \o "." \o ToString(a[2]) \o "." \o ToString(a[3]) \o "." \o ToString(a[4])

(***************************************************************************)
(* ParserError and the results of the parsing functions                    *)
(***************************************************************************)
NoError == [kind |-> "", arg |-> ""]
Ipnet == [kind |-> "Ipnet", arg |-> ""]
Net == [kind |-> "Net", arg |-> ""]
MissingToken(token) == [kind |-> "MissingToken", arg |-> token]
Other(msg) == [kind |-> "Other", arg |-> msg]
BadFormat == [kind |-> "BadFormat", arg |-> ""]
InvalidLine(text, e) == [kind |-> "InvalidLine", arg |-> text, inner |-> e]

\* A panic (Option/Result::unwrap on a failure, index out of bounds) is not
\* a ParserError: it unwinds through parse_line and parse.
Ok == [tag |-> "Ok", e |-> NoError]
Err(e) == [tag |-> "Err", e |-> e]
Panic(msg) == [tag |-> "Panic", e |-> [kind |-> "panic", arg |-> msg]]

(***************************************************************************)
(* str_to_udp and the TryFrom conversions                                  *)
(***************************************************************************)
\* The tuple is built left to right: address unwrap, tokens[1], port unwrap.
str_to_udp(input) ==
    LET tokens == split(input, ":")
        a == parse_Ipv4Addr(tokens[1])
    IN  IF ~a.ok THEN [r |-> Panic("unwrap: AddrParseError")]
        ELSE IF Len(tokens) < 2 THEN [r |-> Panic("index out of bounds")]
        ELSE LET p == parse_u16(tokens[2])
             IN  IF ~p.ok THEN [r |-> Panic("unwrap: ParseIntError")]
                 ELSE [r |-> Ok, udp_addr |-> a.v, udp_port |-> p.v]

RoutingType_try_from(value) ==
    CASE value = "none" -> [r |-> Ok, v |-> "None"]
      [] value = "static" -> [r |-> Ok, v |-> "Static"]
      [] value = "rip" -> [r |-> Ok, v |-> "Rip"]
      [] OTHER -> [r |-> Err(Other("Invalid routing type: " \o value))]

\* a plausible slip: '<' for '!=' in the arity check, so a longer line passes
InterfaceConfig_try_from_lax(tokens) ==
    IF Len(tokens) < 4 THEN [r |-> Err(BadFormat)]
    ELSE LET assigned_prefix == parse_Ipv4Net(tokens[3])
         IN  IF ~assigned_prefix.ok THEN [r |-> Err(Ipnet)]
             ELSE LET udp == str_to_udp(tokens[4])
                  IN  IF udp.r.tag # "Ok" THEN [r |-> udp.r]
                      ELSE [r |-> Ok,
                            v |-> [name |-> tokens[2],
                                   assigned_prefix |-> assigned_prefix.v,
                                   assigned_ip |-> assigned_prefix.v.addr,
                                   udp_addr |-> udp.udp_addr,
                                   udp_port |-> udp.udp_port]]

InterfaceConfig_try_from(tokens) ==
    IF Len(tokens) # 4 THEN [r |-> Err(BadFormat)]
    ELSE LET assigned_prefix == parse_Ipv4Net(tokens[3])
         IN  IF ~assigned_prefix.ok THEN [r |-> Err(Ipnet)]
             ELSE LET udp == str_to_udp(tokens[4])
                  IN  IF udp.r.tag # "Ok" THEN [r |-> udp.r]
                      ELSE [r |-> Ok,
                            v |-> [name |-> tokens[2],
                                   assigned_prefix |-> assigned_prefix.v,
                                   assigned_ip |-> assigned_prefix.v.addr,
                                   udp_addr |-> udp.udp_addr,
                                   udp_port |-> udp.udp_port]]

\* a plausible slip: a keyword mismatch reported as the generic BadFormat
NeighborConfig_try_from_generic(tokens) ==
    IF Len(tokens) # 6 THEN [r |-> Err(BadFormat)]
    ELSE LET dest_addr == parse_Ipv4Addr(tokens[2])
         IN  IF ~dest_addr.ok THEN [r |-> Err(Net)]
             ELSE IF tokens[3] # "at" THEN [r |-> Err(BadFormat)]
             ELSE LET udp == str_to_udp(tokens[4])
                  IN  IF udp.r.tag # "Ok" THEN [r |-> udp.r]
                      ELSE IF tokens[5] # "via" THEN [r |-> Err(BadFormat)]
                      ELSE [r |-> Ok,
                            v |-> [dest_addr |-> dest_addr.v,
                                   udp_addr |-> udp.udp_addr,
                                   udp_port |-> udp.udp_port,
                                   interface_name |-> tokens[6]]]

NeighborConfig_try_from(tokens) ==
    IF Len(tokens) # 6 THEN [r |-> Err(BadFormat)]
    ELSE LET dest_addr == parse_Ipv4Addr(tokens[2])
         IN  IF ~dest_addr.ok THEN [r |-> Err(Net)]
             ELSE IF tokens[3] # "at" THEN [r |-> Err(MissingToken("at"))]
             ELSE LET udp == str_to_udp(tokens[4])
                  IN  IF udp.r.tag # "Ok" THEN [r |-> udp.r]
                      ELSE IF tokens[5] # "via" THEN [r |-> Err(MissingToken("via"))]
                      ELSE [r |-> Ok,
                            v |-> [dest_addr |-> dest_addr.v,
                                   udp_addr |-> udp.udp_addr,
                                   udp_port |-> udp.udp_port,
                                   interface_name |-> tokens[6]]]

(***************************************************************************)
(* IPConfig                                                                *)
(***************************************************************************)
None == [some |-> FALSE, v |-> <<>>]
Some(v) == [some |-> TRUE, v |-> v]

\* IPConfig::default()
IPConfig_default ==
    [interfaces |-> <<>>, neighbors |-> <<>>, routing_mode |-> "None",
     rip_neighbors |-> None, static_routes |-> <<>>]

\* a plausible slip: insert at the front instead of Vec::push
push_front(vec, x) == <<x>> \o vec

\* Vec::push
push(vec, x) == Append(vec, x)

\* What a parsing method hands back: its Result and the IPConfig it leaves
Return(r, self) == [r |-> r, self |-> self]

parse_routing(self, tokens) ==
    IF Len(tokens) # 2 THEN Return(Err(BadFormat), self)
    ELSE LET mode == RoutingType_try_from(tokens[2])
         IN  IF mode.r.tag # "Ok" THEN Return(mode.r, self)
             ELSE Return(Ok, [self EXCEPT !.routing_mode = mode.v])

\* a plausible slip: the route is pushed before its next hop is validated
parse_route_eager(self, tokens) ==
    IF Len(tokens) # 4 THEN Return(Err(BadFormat), self)
    ELSE LET prefix == parse_Ipv4Net(tokens[2])
         IN  IF ~prefix.ok THEN Return(Err(Ipnet), self)
             ELSE IF tokens[3] # "via" THEN Return(Err(MissingToken("via")), self)
             ELSE LET addr == parse_Ipv4Addr(tokens[4])
                      pushed == [self EXCEPT !.static_routes =
                                    push(@, <<prefix.v, IF addr.ok THEN addr.v ELSE <<0, 0, 0, 0>> >>)]
                  IN  IF ~addr.ok THEN Return(Err(Net), pushed)
                      ELSE Return(Ok, pushed)

parse_route(self, tokens) ==
    IF Len(tokens) # 4 THEN Return(Err(BadFormat), self)
    ELSE LET prefix == parse_Ipv4Net(tokens[2])
         IN  IF ~prefix.ok THEN Return(Err(Ipnet), self)
             ELSE IF tokens[3] # "via" THEN Return(Err(MissingToken("via")), self)
             ELSE LET addr == parse_Ipv4Addr(tokens[4])
                  IN  IF ~addr.ok THEN Return(Err(Net), self)
                      ELSE Return(Ok, [self EXCEPT !.static_routes = push(@, <<prefix.v, addr.v>>)])

\* a plausible slip: the target is accepted without looking it up
matching_neighbor_unchecked(neighbors, addr) ==
    Some([dest_addr |-> addr])

\* self.neighbors.iter().find(|n| n.dest_addr == addr): the first match
matching_neighbor(neighbors, addr) ==
    LET hits == {i \in 1..Len(neighbors) : neighbors[i].dest_addr = addr}
    IN  IF hits = {} THEN None
        ELSE Some(neighbors[CHOOSE i \in hits : \A j \in hits : i <= j])

\* a plausible slip: the list is created before the lookup decides
no_such_neighbor_created(self, addr) ==
    Return(Err(Other("No neighbor with address " \o Ipv4Display(addr))),
           [self EXCEPT !.rip_neighbors = IF @.some THEN @ ELSE Some(<<>>)])

\* the None arm of the lookup
no_such_neighbor(self, addr) ==
    Return(Err(Other("No neighbor with address " \o Ipv4Display(addr))), self)

parse_rip(self, tokens) ==
    IF Len(tokens) # 3 THEN Return(Err(BadFormat), self)
    ELSE LET command == tokens[2]
         IN  IF command # "advertise-to"
             THEN Return(Err(Other("Invalid command: " \o command)), self)
             ELSE LET addr == parse_Ipv4Addr(tokens[3])
                  IN  IF ~addr.ok THEN Return(Err(Net), self)
                      ELSE LET found == matching_neighbor(self.neighbors, addr.v)
                           IN  IF found.some
                               THEN Return(Ok, [self EXCEPT !.rip_neighbors =
                                        IF @.some THEN Some(push(@.v, found.v.dest_addr))
                                        ELSE Some(<<found.v.dest_addr>>)])
                               ELSE no_such_neighbor(self, addr.v)

\* a plausible slip: a substring scan, so a token that merely starts with
\* '#' also opens a comment
strip_comment_prefix(tokens) ==
    LET marks == {i \in 1..Len(tokens) : CharAt(tokens[i], 1) = "#"}
    IN  IF marks = {} THEN tokens
        ELSE SubSeq(tokens, 1, (CHOOSE i \in marks : \A j \in marks : i <= j) - 1)

\* tokens.truncate(position of the first token equal to "#", or len)
strip_comment(tokens) ==
    LET marks == {i \in 1..Len(tokens) : tokens[i] = "#"}
    IN  IF marks = {} THEN tokens
        ELSE SubSeq(tokens, 1, (CHOOSE i \in marks : \A j \in marks : i <= j) - 1)

\* a plausible slip: an unknown directive is skipped like a blank line
unknown_directive_skipped(self, directive) == Return(Ok, self)

\* the default arm of the dispatch
unknown_directive(self, directive) ==
    Return(Err(Other("Invalid directive: " \o directive)), self)

\* the token vector parse_line works on: split, then comment stripped
tokenize(text) == strip_comment(split_ascii_whitespace(text))

parse_line(self, text) ==
    LET tokens == tokenize(text)
    IN  IF Len(tokens) = 0 THEN Return(Ok, self)
        ELSE LET directive == tokens[1]
             IN  CASE directive = "interface" ->
                        LET c == InterfaceConfig_try_from(tokens)
                        IN  IF c.r.tag # "Ok" THEN Return(c.r, self)
                            ELSE Return(Ok, [self EXCEPT !.interfaces = push(@, c.v)])
                   [] directive = "neighbor" ->
                        LET c == NeighborConfig_try_from(tokens)
                        IN  IF c.r.tag # "Ok" THEN Return(c.r, self)
                            ELSE Return(Ok, [self EXCEPT !.neighbors = push(@, c.v)])
                   [] directive = "routing" -> parse_routing(self, tokens)
                   [] directive = "route" -> parse_route(self, tokens)
                   [] directive = "rip" -> parse_rip(self, tokens)
                   [] OTHER -> unknown_directive(self, directive)

\* a plausible slip: the line is wrapped at both layers
wrap_twice(text, e) == InvalidLine(text, InvalidLine(text, e))

\* ParserError::InvalidLine(String::from(line), Box::new(e))
wrap(text, e) == InvalidLine(text, e)

(***************************************************************************)
(* The input lines the model feeds to parse                                *)
(***************************************************************************)
BlankLines ==
    {"", "   ", "#", "# This is a comment", "\t# interface eth0"}

CommentedLines ==
    {"routing static # mode", "routing # static", "routing rip #comment",
     "routing static#", "#routing static",
     "interface eth0 10.0.0.1/24 10.0.0.1:9000 # first",
     "rip advertise-to 10.0.0.2 # 10.0.0.3"}

InterfaceLines ==
    {"interface eth0 10.0.0.1/24 10.0.0.1:9000",
     "  interface\teth1  10.0.1.1/24 10.0.0.1:9001 ",
     "interface eth0 10.0.0.1/33 10.0.0.1:9000",
     "interface eth0 10.0.0.1 10.0.0.1:9000",
     "interface eth0 10.0.0.1/24 10.0.0.1:65536",
     "interface eth0 10.0.0.1/24 10.0.0.1",
     "interface eth0 10.0.0.1/24 10.0.0.256:9000",
     "interface eth0 10.0.0.1/33 10.0.0.1",
     "interface",
     "interface eth0 10.0.0.1/24",
     "interface eth0 10.0.0.1/33",
     "interface eth0 10.0.0.1/24 10.0.0.1:9000 extra",
     "interface eth0 10.0.0.1/24 10.0.0.1 extra"}

NeighborLines ==
    {"neighbor 10.0.0.2 at 10.0.0.2:9001 via eth0",
     "neighbor 10.0.0.3 at 10.0.0.3:9002 via eth1",
     "neighbor 10.0.0.256 at 10.0.0.2:9001 via eth0",
     "neighbor 10.0.0.2 on 10.0.0.2:9001 via eth0",
     "neighbor 10.0.0.2 AT 10.0.0.2:9001 via eth0",
     "neighbor 10.0.0.2 at 10.0.0.2:9001 over eth0",
     "neighbor 10.0.0.256 on 10.0.0.2:9001 via eth0",
     "neighbor 10.0.0.2 on 10.0.0.2 via eth0",
     "neighbor 10.0.0.2 at 10.0.0.2 over eth0",
     "neighbor 10.0.0.2 at 10.0.0.2:99999 via eth0",
     "neighbor 10.0.0.2 at 10.0.0.2:9001 eth0",
     "neighbor 10.0.0.256 on 10.0.0.2 over",
     "neighbor 10.0.0.2 at 10.0.0.2:9001 via eth0 extra"}

RoutingLines ==
    {"routing none", "routing static", "routing rip", "routing ospf",
     "routing", "routing rip static"}

RouteLines ==
    {"route 10.0.1.0/24 via 10.0.0.2",
     "route 0.0.0.0/0 via 10.0.0.3",
     "route 10.0.1.0/24 to 10.0.0.2",
     "route 10.0.1.0/33 via 10.0.0.2",
     "route 10.0.1.0/33 to 10.0.0.2",
     "route 10.0.1.0/24 via 10.0.0.256",
     "route 10.0.1.0/24 to 10.0.0.256",
     "route 10.0.1.0/24 via",
     "route 10.0.1.0/33 to 10.0.0.256 extra"}

RipLines ==
    {"rip advertise-to 10.0.0.2",
     "rip advertise-to 10.0.0.3",
     "rip advertise-to 10.0.0.9",
     "rip advertise-to 10.0.0.256",
     "rip originate 10.0.0.2",
     "rip originate 10.0.0.256",
     "rip advertise-to",
     "rip originate",
     "rip advertise-to 10.0.0.2 extra",
     "rip originate 10.0.0.256 extra"}

UnknownLines ==
    {"link eth0", "Interface eth0 10.0.0.1/24 10.0.0.1:9000", "routing: static"}

Lines ==
    BlankLines \cup CommentedLines \cup InterfaceLines \cup NeighborLines
        \cup RoutingLines \cup RouteLines \cup RipLines \cup UnknownLines

(***************************************************************************)
(* State: the IPConfig that parse mutates, and where parse stands          *)
(***************************************************************************)
VARIABLES
    interfaces,      \* IPConfig.interfaces
    neighbors,       \* IPConfig.neighbors
    routing_mode,    \* IPConfig.routing_mode
    rip_neighbors,   \* IPConfig.rip_neighbors (None or Some(sequence))
    static_routes,   \* IPConfig.static_routes
    pc,              \* "loop" | "returned" | "panicked"
    lineno,          \* lines taken from config.lines() so far
    line,            \* the line of the current iteration, as read
    line_result,     \* what parse_line returned for it
    ret              \* what parse returned (Ok while it is still looping)

vars == <<interfaces, neighbors, routing_mode, rip_neighbors, static_routes,
          pc, lineno, line, line_result, ret>>

Self ==
    [interfaces |-> interfaces, neighbors |-> neighbors,
     routing_mode |-> routing_mode, rip_neighbors |-> rip_neighbors,
     static_routes |-> static_routes]

\* try_new: IPConfig::default(), then parse starts on the first line
Init ==
    /\ interfaces = IPConfig_default.interfaces
    /\ neighbors = IPConfig_default.neighbors
    /\ routing_mode = IPConfig_default.routing_mode
    /\ rip_neighbors = IPConfig_default.rip_neighbors
    /\ static_routes = IPConfig_default.static_routes
    /\ pc = "loop"
    /\ lineno = 0
    /\ line = ""
    /\ line_result = Ok
    /\ ret = Ok

\* One iteration of the for loop of parse over the next line of the text
ParseLoop(text) ==
    /\ pc = "loop"
    /\ lineno < MaxLines
    /\ LET out == parse_line(Self, text)
       IN  /\ interfaces' = out.self.interfaces
           /\ neighbors' = out.self.neighbors
           /\ routing_mode' = out.self.routing_mode
           /\ rip_neighbors' = out.self.rip_neighbors
           /\ static_routes' = out.self.static_routes
           /\ line_result' = out.r
           /\ CASE out.r.tag = "Panic" -> pc' = "panicked" /\ ret' = out.r
                [] out.r.tag = "Ok" -> pc' = "loop" /\ ret' = ret
                [] out.r.tag = "Err" /\ out.r.e.kind = "InvalidLine" ->
                       pc' = "loop" /\ ret' = ret
                [] OTHER -> pc' = "returned" /\ ret' = Err(wrap(text, out.r.e))
    /\ line' = text
    /\ lineno' = lineno + 1

\* config.lines() is exhausted: parse returns Ok(())
ParseReturnOk ==
    /\ pc = "loop"
    /\ pc' = "returned"
    /\ ret' = Ok
    /\ UNCHANGED <<interfaces, neighbors, routing_mode, rip_neighbors,
                   static_routes, lineno, line, line_result>>

Next ==
    \/ \E text \in Lines : ParseLoop(text)
    \/ ParseReturnOk

Spec == Init /\ [][Next]_vars

(***************************************************************************)
(* Properties                                                              *)
(***************************************************************************)
\* a step of Next that took one more line from the text
LineTaken == lineno' # lineno

\* C1: every address in rip_neighbors is the dest_addr of a neighbor, it was
\* the dest_addr of a neighbor already present when it was appended, and a
\* well-formed `rip advertise-to <addr>` line met while no neighbor has that
\* dest_addr is rejected without touching rip_neighbors.
C1_RipTargetsAreDeclaredNeighbors ==
    /\ [](\A i \in 1..Len(rip_neighbors.v) :
             \E j \in 1..Len(neighbors) : neighbors[j].dest_addr = rip_neighbors.v[i])
    /\ [][rip_neighbors' # rip_neighbors =>
             \E j \in 1..Len(neighbors) :
                 neighbors[j].dest_addr = rip_neighbors'.v[Len(rip_neighbors'.v)]]_vars
    /\ [][(/\ LineTaken
           /\ LET t == tokenize(line')
              IN  /\ Len(t) = 3 /\ t[1] = "rip" /\ t[2] = "advertise-to"
                  /\ parse_Ipv4Addr(t[3]).ok
                  /\ \A j \in 1..Len(neighbors) :
                         neighbors[j].dest_addr # parse_Ipv4Addr(t[3]).v)
          => (line_result'.tag = "Err" /\ rip_neighbors' = rip_neighbors)]_vars

\* neighbor .2, advertise-to .2 accepted, advertise-to .3 rejected
C1_Witness ==
    /\ lineno = 3
    /\ Len(neighbors) = 1 /\ neighbors[1].dest_addr = <<10, 0, 0, 2>>
    /\ rip_neighbors = Some(<< <<10, 0, 0, 2>> >>)
    /\ line = "rip advertise-to 10.0.0.3"
    /\ line_result.tag = "Err"

\* C2: parse returns an error exactly when a parse_line call returned one;
\* the error is InvalidLine holding the line as read and parse_line's error,
\* wrapped once; a line that failed ends the loop, and nothing is processed
\* after parse has returned.
C2_FirstFailureIsReturnedWrappedOnce ==
    /\ []((ret.tag = "Err") <=> (line_result.tag = "Err"))
    /\ [](ret.tag = "Err" =>
             /\ pc = "returned"
             /\ ret.e.kind = "InvalidLine"
             /\ ret.e.arg = line
             /\ ret.e.inner = line_result.e
             /\ ret.e.inner.kind # "InvalidLine")
    /\ [][line_result'.tag = "Err" => pc' = "returned"]_vars
    /\ [][pc = "returned" => UNCHANGED vars]_vars

\* the second line fails; its text as read still carries the comment
C2_Witness ==
    /\ pc = "returned"
    /\ lineno = 2
    /\ ret = Err(InvalidLine("routing # static", BadFormat))

\* C3: an `interface` or `neighbor` line whose address:port token is
\* malformed makes parse_line return an error value; parsing never panics.
C3_UdpFieldFailsWithErrorValue ==
    /\ pc # "panicked"
    /\ line_result.tag # "Panic"

\* C4 as stated: a directive line of correct arity whose keyword token does
\* not match fails with MissingToken (taken here for the lines whose other
\* fields are all well formed, so that the keyword is the only fault).
C4_KeywordMismatchIsMissingToken ==
    LET t == tokenize(line)
    IN  (/\ lineno > 0
         /\ \/ /\ Len(t) = 6 /\ t[1] = "neighbor" /\ (t[3] # "at" \/ t[5] # "via")
               /\ parse_Ipv4Addr(t[2]).ok /\ str_to_udp(t[4]).r.tag = "Ok"
            \/ /\ Len(t) = 4 /\ t[1] = "route" /\ t[3] # "via"
               /\ parse_Ipv4Net(t[2]).ok /\ parse_Ipv4Addr(t[4]).ok
            \/ /\ Len(t) = 3 /\ t[1] = "rip" /\ t[2] # "advertise-to"
               /\ parse_Ipv4Addr(t[3]).ok)
        => (line_result.tag = "Err" /\ line_result.e.kind = "MissingToken")

\* C4 amended: the keyword check comes after the fields to its left, and
\* `rip` reports its second token as an invalid command.
C4_KeywordMismatchAfterEarlierFields ==
    LET t == tokenize(line)
    IN  lineno > 0 =>
        /\ (Len(t) = 6 /\ t[1] = "neighbor" /\ parse_Ipv4Addr(t[2]).ok /\ t[3] # "at")
               => line_result = Err(MissingToken("at"))
        /\ (/\ Len(t) = 6 /\ t[1] = "neighbor" /\ parse_Ipv4Addr(t[2]).ok /\ t[3] = "at"
            /\ str_to_udp(t[4]).r.tag = "Ok" /\ t[5] # "via")
               => line_result = Err(MissingToken("via"))
        /\ (Len(t) = 4 /\ t[1] = "route" /\ parse_Ipv4Net(t[2]).ok /\ t[3] # "via")
               => line_result = Err(MissingToken("via"))
        /\ (Len(t) = 3 /\ t[1] = "rip" /\ t[2] # "advertise-to")
               => line_result = Err(Other("Invalid command: " \o t[2]))

C4_Witness ==
    /\ line = "neighbor 10.0.0.2 at 10.0.0.2:9001 over eth0"
    /\ line_result = Err(MissingToken("via"))
    /\ pc = "returned"

\* C5: a line of one of the five directives whose token count is not the
\* directive's arity fails with BadFormat, whatever its fields look like,
\* and leaves the aggregate unchanged.
C5_ArityMismatchIsBadFormat ==
    [][(/\ LineTaken
        /\ LET t == tokenize(line')
           IN  /\ Len(t) > 0
               /\ \/ t[1] = "interface" /\ Len(t) # 4
                  \/ t[1] = "neighbor" /\ Len(t) # 6
                  \/ t[1] = "routing" /\ Len(t) # 2
                  \/ t[1] = "route" /\ Len(t) # 4
                  \/ t[1] = "rip" /\ Len(t) # 3)
       => (line_result' = Err(BadFormat) /\ Self' = Self)]_vars

\* five tokens, and the address:port token has no port
C5_Witness ==
    /\ line = "interface eth0 10.0.0.1/24 10.0.0.1 extra"
    /\ line_result = Err(BadFormat)
    /\ lineno = 2
    /\ Len(neighbors) = 1

\* C6: rip_neighbors is never Some of an empty sequence; it turns from None
\* to Some only on a successful `rip advertise-to` line, and then holds that
\* one address; an advertise-to line with no matching neighbor fails with
\* the "No neighbor" error and leaves rip_neighbors as it was.
C6_RipNeighborsAbsentUntilFirstSuccess ==
    /\ [](rip_neighbors.some => Len(rip_neighbors.v) >= 1)
    /\ [](~rip_neighbors.some => rip_neighbors = None)
    /\ [][(~rip_neighbors.some /\ rip_neighbors'.some) =>
             LET t == tokenize(line')
             IN  /\ LineTaken /\ line_result' = Ok
                 /\ Len(t) = 3 /\ t[1] = "rip" /\ t[2] = "advertise-to"
                 /\ rip_neighbors' = Some(<<parse_Ipv4Addr(t[3]).v>>)]_vars
    /\ [][(/\ LineTaken
           /\ LET t == tokenize(line')
              IN  /\ Len(t) = 3 /\ t[1] = "rip" /\ t[2] = "advertise-to"
                  /\ parse_Ipv4Addr(t[3]).ok
                  /\ \A j \in 1..Len(neighbors) :
                         neighbors[j].dest_addr # parse_Ipv4Addr(t[3]).v)
          => (/\ line_result' = Err(Other("No neighbor with address " \o tokenize(line')[3]))
              /\ rip_neighbors' = rip_neighbors)]_vars

\* a neighbor is declared, yet not the one the line names
C6_Witness ==
    /\ Len(neighbors) = 2
    /\ line = "rip advertise-to 10.0.0.9"
    /\ line_result = Err(Other("No neighbor with address 10.0.0.9"))
    /\ rip_neighbors = None

\* C7: a line with no token, or whose first token is exactly "#", succeeds
\* and changes nothing; a "#" token later in the line leaves the tokens
\* before it in force; a "#" glued to a token is part of that token.
C7_CommentsAndBlankLines ==
    /\ [][(LineTaken /\ LET w == split_ascii_whitespace(line')
                        IN  Len(w) = 0 \/ w[1] = "#")
          => (line_result' = Ok /\ Self' = Self)]_vars
    /\ [][(LineTaken /\ line' = "routing static # mode")
          => (line_result' = Ok /\ routing_mode' = "Static")]_vars
    /\ [][(LineTaken /\ line' = "routing # static")
          => line_result' = Err(BadFormat)]_vars
    /\ [][(LineTaken /\ line' = "interface eth0 10.0.0.1/24 10.0.0.1:9000 # first")
          => (line_result' = Ok /\ Len(interfaces') = Len(interfaces) + 1)]_vars
    /\ [][(LineTaken /\ line' = "routing rip #comment")
          => (line_result' = Err(BadFormat) /\ Self' = Self)]_vars
    /\ [][(LineTaken /\ line' = "routing static#")
          => line_result' = Err(Other("Invalid routing type: static#"))]_vars
    /\ [][(LineTaken /\ line' = "#routing static")
          => line_result' = Err(Other("Invalid directive: #routing"))]_vars

\* a comment line met after an interface and a routing line
C7_Witness ==
    /\ lineno = 3
    /\ line = "\t# interface eth0"
    /\ line_result = Ok
    /\ Len(interfaces) = 1
    /\ routing_mode = "Rip"

\* C8: a step changes at most one field of the aggregate; a sequence only
\* grows by one element at its end, keeping what it held as a prefix;
\* rip_neighbors likewise (None counting as empty); routing_mode is replaced.
C8_AppendOnly ==
    [][LET Grew(old, new) ==
               \/ new = old
               \/ /\ Len(new) = Len(old) + 1
                  /\ SubSeq(new, 1, Len(old)) = old
       IN  /\ Grew(interfaces, interfaces')
           /\ Grew(neighbors, neighbors')
           /\ Grew(static_routes, static_routes')
           /\ Grew(rip_neighbors.v, rip_neighbors'.v)
           /\ Cardinality({k \in 1..5 :
                  \/ k = 1 /\ interfaces' # interfaces
                  \/ k = 2 /\ neighbors' # neighbors
                  \/ k = 3 /\ static_routes' # static_routes
                  \/ k = 4 /\ rip_neighbors' # rip_neighbors
                  \/ k = 5 /\ routing_mode' # routing_mode}) <= 1]_vars

\* two interfaces, held in the order of their lines
C8_Witness ==
    /\ Len(interfaces) = 2
    /\ interfaces[1].name = "eth0"
    /\ interfaces[2].name = "eth1"
    /\ interfaces[2].udp_port = 9001

\* C9: a line whose first token is not a directive name fails with
\* Other("Invalid directive: <token>") and leaves the aggregate unchanged.
C9_UnknownDirective ==
    [][(/\ LineTaken
        /\ LET t == tokenize(line')
           IN  /\ Len(t) > 0
               /\ t[1] \notin {"interface", "neighbor", "routing", "route", "rip"})
       => (/\ line_result' = Err(Other("Invalid directive: " \o tokenize(line')[1]))
           /\ Self' = Self)]_vars

\* directive names are case sensitive
C9_Witness ==
    /\ line = "Interface eth0 10.0.0.1/24 10.0.0.1:9000"
    /\ line_result = Err(Other("Invalid directive: Interface"))
    /\ lineno = 2
    /\ Len(static_routes) = 1

\* C10: the step on which parse returns an error leaves the aggregate as
\* the lines before it made it, and nothing changes it afterwards.
C10_FailingLineContributesNothing ==
    /\ [][(pc' = "returned" /\ ret'.tag = "Err") => Self' = Self]_vars
    /\ [][line_result'.tag = "Err" => Self' = Self]_vars
    /\ [][pc = "returned" => Self' = Self]_vars

\* the route line fails on its next hop, after its prefix parsed
C10_Witness ==
    /\ pc = "returned"
    /\ ret = Err(InvalidLine("route 10.0.1.0/24 via 10.0.0.256", Net))
    /\ Len(static_routes) = 1
    /\ static_routes[1] = <<[addr |-> <<0, 0, 0, 0>>, prefix_len |-> 0], <<10, 0, 0, 3>> >>
    /\ routing_mode = "Static"
====
